---- MODULE Spec2Model ----
(***************************************************************************)
(* zsh_merge_history: merge_zsh_histories.go as a state machine.           *)
(*                                                                         *)
(* Text is a sequence of one-character strings.  An int64 / int value is   *)
(* its canonical decimal digit sequence (no leading zeros), compared by    *)
(* length and then digit by digit, so that values beyond 32 bits keep      *)
(* their exact order and their exact printed form.                         *)
(***************************************************************************)
EXTENDS Integers, Sequences, FiniteSets, TLC

\* ------------------------------------------------------------------ text

NL == "\n"
BS == "\\"

Range(s) == {s[i] : i \in DOMAIN s}

Digits == <<"0", "1", "2", "3", "4", "5", "6", "7", "8", "9">>

IsDigit(c) == c \in Range(Digits)

DigitVal(c) == (CHOOSE i \in 1..10 : Digits[i] = c) - 1

\* \s of Go's regexp (RE2) and the ASCII part of unicode.IsSpace.
WhiteSpace == {" ", "\t", "\n", "\f", "\r"}

Zeros(n) == [i \in 1..n |-> "0"]

Spaces(n) == [i \in 1..n |-> " "]

RECURSIVE Flatten(_)
Flatten(ss) == IF ss = <<>> THEN <<>> ELSE Head(ss) \o Flatten(Tail(ss))

\* The first index >= i of s that holds c, or Len(s)+1.
IndexFrom(s, c, i) ==
    IF \E k \in i..Len(s) : s[k] = c
    THEN CHOOSE k \in i..Len(s) : s[k] = c /\ \A j \in i..(k - 1) : s[j] # c
    ELSE Len(s) + 1

\* strings.Split(s, sep) for a one-character separator.
RECURSIVE Split(_, _)
Split(s, sep) ==
    LET k == IndexFrom(s, sep, 1)
    IN  IF k > Len(s) THEN <<s>>
        ELSE <<SubSeq(s, 1, k - 1)>> \o Split(SubSeq(s, k + 1, Len(s)), sep)

\* strings.SplitN(s, sep, 2).
SplitN2(s, sep) ==
    LET k == IndexFrom(s, sep, 1)
    IN  IF k > Len(s) THEN <<s>>
        ELSE <<SubSeq(s, 1, k - 1), SubSeq(s, k + 1, Len(s))>>

HasSuffix(s, c) == Len(s) > 0 /\ s[Len(s)] = c

TrimSuffix(s, c) == IF HasSuffix(s, c) THEN SubSeq(s, 1, Len(s) - 1) ELSE s

\* strings.TrimSpace.
TrimSpace(s) ==
    LET keep == {i \in 1..Len(s) : s[i] \notin WhiteSpace}
    IN  IF keep = {} THEN <<>>
        ELSE SubSeq(s, CHOOSE i \in keep : \A j \in keep : i <= j,
                       CHOOSE i \in keep : \A j \in keep : i >= j)

HasPrefixAt(s, i, t) ==
    /\ i + Len(t) - 1 <= Len(s)
    /\ \A k \in 1..Len(t) : s[i + k - 1] = t[k]

\* strings.ReplaceAll(s, old, new) for a non-empty old: leftmost,
\* non-overlapping occurrences.
RECURSIVE ReplaceFrom(_, _, _, _)
ReplaceFrom(s, i, old, new) ==
    IF i > Len(s) THEN <<>>
    ELSE IF HasPrefixAt(s, i, old)
         THEN new \o ReplaceFrom(s, i + Len(old), old, new)
         ELSE <<s[i]>> \o ReplaceFrom(s, i + 1, old, new)

ReplaceAll(s, old, new) == ReplaceFrom(s, 1, old, new)

\* The length of the run of decimal digits of s that starts at index j.
DigitRun(s, j) ==
    IF j > Len(s) THEN 0
    ELSE CHOOSE n \in 0..(Len(s) - j + 1) :
            /\ \A k \in j..(j + n - 1) : IsDigit(s[k])
            /\ (j + n > Len(s) \/ ~IsDigit(s[j + n]))

\* The first index >= j of s that holds no white space, or Len(s)+1.
SkipSpace(s, j) ==
    IF \E k \in j..Len(s) : s[k] \notin WhiteSpace
    THEN CHOOSE k \in j..Len(s) :
            s[k] \notin WhiteSpace /\ \A m \in j..(k - 1) : s[m] \in WhiteSpace
    ELSE Len(s) + 1

\* ------------------------------------------------------------- integers

StripZeros(d) ==
    IF \A i \in 1..Len(d) : d[i] = "0" THEN <<"0">>
    ELSE SubSeq(d, CHOOSE i \in 1..Len(d) :
                       d[i] # "0" /\ \A j \in 1..(i - 1) : d[j] = "0", Len(d))

\* a < b for canonical digit sequences.
NumLess(a, b) ==
    \/ Len(a) < Len(b)
    \/ /\ Len(a) = Len(b)
       /\ \E i \in 1..Len(a) :
            /\ DigitVal(a[i]) < DigitVal(b[i])
            /\ \A j \in 1..(i - 1) : a[j] = b[j]

NumLeq(a, b) == a = b \/ NumLess(a, b)

\* math.MaxInt64 = 9223372036854775807.
MaxInt64 ==
    <<"9", "2", "2", "3", "3", "7", "2", "0", "3", "6",
      "8", "5", "4", "7", "7", "5", "8", "0", "7">>

\* strconv.ParseInt(s, 10, 64) on the texts the validator lets through
\* (unsigned decimal digits); any other text is a syntax error.
ParseInt(s) ==
    IF s = <<>> \/ \E i \in 1..Len(s) : ~IsDigit(s[i])
    THEN [err |-> "syntax", val |-> <<"0">>]
    ELSE IF NumLess(MaxInt64, StripZeros(s))
         THEN [err |-> "range", val |-> MaxInt64]
         ELSE [err |-> "none", val |-> StripZeros(s)]

\* strconv.Atoi: ParseInt at the width of int (64 bits on the supported builds).
Atoi(s) == ParseInt(s)

\* --------------------------------------------------- program constants

\* \d{10,} of validLineRegex.
ValidMinDigits == 10

\* \d{10,} of timestampRegex.
TimestampMinDigits == 10

\* The width of %11d in the output format.
TimeWidth == 11

\* "TO_BE_REMOVED_" of the placeholder token.
PlaceholderPrefix ==
    <<"T", "O", "_", "B", "E", "_", "R", "E", "M", "O", "V", "E", "D", "_">>

\* A byte that is not part of any valid UTF-8 sequence (0xFF).
InvalidByte == "xFF"

\* The first byte of a two-byte UTF-8 sequence (0xC3).
LeadByte == "xC3"

\* A continuation byte of a UTF-8 sequence (0xA9).
ContByte == "xA9"

\* ------------------------------------------------------ pure functions

\* fmt.Sprintf("TO_BE_REMOVED_%d", time.Now().Unix())
Placeholder(unix) == PlaceholderPrefix \o unix

\* validLineRegex without its ^: the pattern found anywhere in the line.
validLineRegexUnanchored(line) ==
    \E s \in 1..Len(line) :
        /\ s + 1 <= Len(line)
        /\ line[s] = ":"
        /\ line[s + 1] = " "
        /\ LET n == DigitRun(line, s + 2)
           IN  /\ n >= ValidMinDigits
               /\ s + 2 + n <= Len(line)
               /\ line[s + 2 + n] = ":"
               /\ LET m == DigitRun(line, s + 3 + n)
                  IN  /\ m >= 1
                      /\ s + 3 + n + m <= Len(line)
                      /\ line[s + 3 + n + m] = ";"

\* validLineRegex.MatchString(line): ^: \d{10,}:\d+;
validLineRegex(line) ==
    /\ Len(line) >= 2
    /\ line[1] = ":"
    /\ line[2] = " "
    /\ LET n == DigitRun(line, 3)
       IN  /\ n >= ValidMinDigits
           /\ 3 + n <= Len(line)
           /\ line[3 + n] = ":"
           /\ LET m == DigitRun(line, 4 + n)
              IN  /\ m >= 1
                  /\ 4 + n + m <= Len(line)
                  /\ line[4 + n + m] = ";"

\* timestampRegex.MatchString(line): :\s*\d{10,} anywhere in the line.
timestampRegex(line) ==
    \E i \in 1..Len(line) :
        /\ line[i] = ":"
        /\ DigitRun(line, SkipSpace(line, i + 1)) >= TimestampMinDigits

\* replacePiece without the TrimSuffix: the backslash stays before the
\* placeholder.
replacePieceKeepBackslash(lines, i, multilineCommand) ==
    IF HasSuffix(lines[i], BS) /\ i + 1 <= Len(lines)
    THEN IF ~timestampRegex(lines[i + 1])
         THEN lines[i] \o multilineCommand
         ELSE lines[i] \o <<NL>>
    ELSE lines[i] \o (IF i < Len(lines) THEN <<NL>> ELSE <<>>)

\* One iteration of the loop of replaceMultilineCommands: what is written
\* to the result for physical line i.
replacePiece(lines, i, multilineCommand) ==
    IF HasSuffix(lines[i], BS) /\ i + 1 <= Len(lines)
    THEN IF ~timestampRegex(lines[i + 1])
         THEN TrimSuffix(lines[i], BS) \o multilineCommand
         ELSE lines[i] \o <<NL>>
    ELSE lines[i] \o (IF i < Len(lines) THEN <<NL>> ELSE <<>>)

replaceMultilineCommands(content, multilineCommand) ==
    LET lines == Split(content, NL)
    IN  Flatten([i \in 1..Len(lines) |-> replacePiece(lines, i, multilineCommand)])

\* bufio.ScanLines over the whole file: the text between newlines, a
\* trailing carriage return dropped, no token for the empty rest after the
\* last newline.
ScanLines(data) ==
    LET parts == Split(data, NL)
        toks  == IF parts[Len(parts)] = <<>>
                 THEN SubSeq(parts, 1, Len(parts) - 1) ELSE parts
    IN  [i \in 1..Len(toks) |-> TrimSuffix(toks[i], "\r")]

\* utf8.DecodeRuneInString at byte i yields (RuneError, 1): the byte starts
\* no valid sequence and is not the continuation byte of the sequence before.
runeError(s, i) ==
    \/ s[i] = InvalidByte
    \/ s[i] = LeadByte /\ ~(i < Len(s) /\ s[i + 1] = ContByte)
    \/ s[i] = ContByte /\ ~(i > 1 /\ s[i - 1] = LeadByte)

\* invalidUTF8 taking every byte outside ASCII for invalid.
invalidUTF8AsciiOnly(s) ==
    [i \in 1..Len(s) |->
        IF s[i] \in {InvalidByte, LeadByte, ContByte} THEN "#" ELSE s[i]]

invalidUTF8(s) == [i \in 1..Len(s) |-> IF runeError(s, i) THEN "#" ELSE s[i]]

\* readFileContent without the newline after the last line.
readFileContentBare(data) ==
    LET toks == ScanLines(data)
    IN  invalidUTF8(Flatten([i \in 1..Len(toks) |->
            toks[i] \o (IF i < Len(toks) THEN <<NL>> ELSE <<>>)]))

readFileContent(data) ==
    LET toks == ScanLines(data)
    IN  invalidUTF8(Flatten([i \in 1..Len(toks) |-> toks[i] \o <<NL>>]))

NoEntry == [Command |-> <<>>, Time |-> <<"0">>, Duration |-> <<"0">>]

\* splitCommand cutting at every semicolon and keeping the first two parts.
splitCommandAll(line) ==
    LET parts == Split(line, ";")
    IN  IF Len(parts) >= 2 THEN <<parts[1], parts[2]>> ELSE parts

\* strings.SplitN(line, ";", 2)
splitCommand(line) == SplitN2(line, ";")

parseHistoryLine(line) ==
    LET parts == splitCommand(line)
    IN  IF Len(parts) # 2
        THEN [err |-> "invalid history line format", entry |-> NoEntry]
        ELSE
        LET timeParts == Split(parts[1], ":")
        IN  IF Len(timeParts) # 3 \/ timeParts[1] # <<>> \/ timeParts[2] = <<>>
            THEN [err |-> "invalid timestamp format", entry |-> NoEntry]
            ELSE
            LET timestamp == ParseInt(TrimSpace(timeParts[2]))
                duration  == Atoi(TrimSpace(timeParts[3]))
            IN  IF timestamp.err # "none"
                THEN [err |-> "invalid timestamp", entry |-> NoEntry]
                ELSE IF duration.err # "none"
                THEN [err |-> "invalid duration", entry |-> NoEntry]
                ELSE [err |-> "none",
                      entry |-> [Command  |-> parts[2],
                                 Time     |-> timestamp.val,
                                 Duration |-> duration.val]]

\* shouldStore without the comparison: the first entry of a command stays.
shouldStoreFirst(commands, entry) == entry.Command \notin DOMAIN commands

\* shouldStore with the comparison turned round: the older entry wins.
shouldStoreOlder(commands, entry) ==
    \/ entry.Command \notin DOMAIN commands
    \/ NumLess(entry.Time, commands[entry.Command].Time)

\* shouldStore with >= for >: the last of two equal timestamps wins.
shouldStoreOnTie(commands, entry) ==
    \/ entry.Command \notin DOMAIN commands
    \/ NumLeq(commands[entry.Command].Time, entry.Time)

\* The condition of the if at the merge: !exists || entry.Time > existing.Time
shouldStore(commands, entry) ==
    \/ entry.Command \notin DOMAIN commands
    \/ NumLess(commands[entry.Command].Time, entry.Time)

\* store writing the Time of the new entry into the entry already there.
storeTimeInPlace(commands, entry) ==
    [k \in DOMAIN commands \cup {entry.Command} |->
        IF k # entry.Command THEN commands[k]
        ELSE IF k \in DOMAIN commands
             THEN [commands[k] EXCEPT !.Time = entry.Time]
             ELSE entry]

\* store making a new map of the one entry.
storeAlone(commands, entry) == [k \in {entry.Command} |-> entry]

\* commands[entry.Command] = entry
store(commands, entry) ==
    [k \in DOMAIN commands \cup {entry.Command} |->
        IF k = entry.Command THEN entry ELSE commands[k]]

\* mergeEntry updating the stored entry's Time alone.
mergeEntryTimeOnly(commands, entry) ==
    IF shouldStore(commands, entry)
    THEN store(commands,
               IF entry.Command \in DOMAIN commands
               THEN [entry EXCEPT !.Duration = commands[entry.Command].Duration]
               ELSE entry)
    ELSE commands

mergeEntry(commands, entry) ==
    IF shouldStore(commands, entry) THEN store(commands, entry) ELSE commands

\* skipLine without the validator: only empty lines are skipped.
skipLineEmptyOnly(line) == line = <<>>

\* The condition of the continue in the loop over the logical lines.
skipLine(line) == line = <<>> \/ ~validLineRegex(line)

\* lessByTime with its arguments swapped: a descending sort.
lessByTimeDesc(a, b) == NumLess(b.Time, a.Time)

\* The less function handed to sort.Slice.
lessByTime(a, b) == NumLess(a.Time, b.Time)

\* What the range over the map followed by sort.Slice can leave in entries:
\* the map's values, each once, no entry before one that is less than it.
\* Map iteration order is unspecified and sort.Slice is not stable, so the
\* order among equal timestamps is any.
sortedEntries(commands) ==
    LET vals == {commands[k] : k \in DOMAIN commands}
        n    == Cardinality(vals)
    IN  {e \in [1..n -> vals] :
            /\ \A i, j \in 1..n : i # j => e[i] # e[j]
            /\ \A i, j \in 1..n : i < j => ~lessByTime(e[j], e[i])}

\* fmt's %<width>d for a non-negative value.
PadLeft(d, width) == IF Len(d) >= width THEN d ELSE Spaces(width - Len(d)) \o d

\* strings.ReplaceAll(entry.Command, multilineCommand, "\\\n")
restoreCommand(command, multilineCommand) ==
    ReplaceAll(command, multilineCommand, <<BS, NL>>)

\* fmt.Printf(":%11d:%d;%s\n", entry.Time, entry.Duration, command)
formatEntry(entry, multilineCommand) ==
    <<":">> \o PadLeft(entry.Time, TimeWidth) \o <<":">> \o entry.Duration
        \o <<";">> \o restoreCommand(entry.Command, multilineCommand) \o <<NL>>

\* The byte order of the characters that occur in path names.
PathBytes == <<".", "0", "1", "2", "a", "b", "c">>

ByteOf(c) == CHOOSE i \in 1..Len(PathBytes) : PathBytes[i] = c

\* a < b for Go strings: byte-wise lexical order.
StringLess(a, b) ==
    \E i \in 1..(Len(a) + 1) :
        /\ \A j \in 1..(i - 1) : j <= Len(b) /\ a[j] = b[j]
        /\ i <= Len(b)
        /\ (i > Len(a) \/ ByteOf(a[i]) < ByteOf(b[i]))

\* sortStrings left out: the arguments in the order given.
sortStringsNone(s) == s

\* sort.Strings(files): the same paths, each as often, in ascending order.
sortStrings(s) ==
    CHOOSE t \in [1..Len(s) -> Range(s)] :
        /\ \A p \in Range(s) :
              Cardinality({i \in 1..Len(s) : s[i] = p})
                = Cardinality({i \in 1..Len(s) : t[i] = p})
        /\ \A i, j \in 1..Len(s) : i < j => ~StringLess(t[j], t[i])

\* ---------------------------------------------------------------- state

VARIABLES
    pc,                \* where main is
    files,             \* os.Args[1:], sorted in place by main
    fs,                \* the file system: path -> file
    now,               \* the clock read at start
    multilineCommand,  \* the placeholder token
    commands,          \* the CommandMap
    fileIdx,           \* index of histFile in files
    lines,             \* the logical lines of the file being processed
    lineIdx,           \* index of line in lines
    entries,           \* the sorted slice of outputMergedCommands
    emitIdx,           \* index of entry in entries
    stdout,            \* the bytes written to standard output
    stderr,            \* the diagnostics written to standard error
    exitCode,          \* the exit status, -1 while running
    parsed,            \* history: the entries parsed so far, in order
    emitted,           \* history: the entries printed so far, in order
    run,               \* 1, or 2 when the output is merged again
    stdout1            \* the output of run 1, kept for run 2

vars == <<pc, files, fs, now, multilineCommand, commands, fileIdx, lines,
          lineIdx, entries, emitIdx, stdout, stderr, exitCode, parsed,
          emitted, run, stdout1>>

\* --------------------------------------------------------------- inputs

\* The most arguments on the command line.
MaxFiles == 2

\* The most physical lines in all input files together.
MaxLines == 3

\* The path names the arguments are drawn from, in ascending order.
PathList == <<<<"a">>, <<"a", "b">>, <<"b">>>>

PathA == PathList[1]

PathB == PathList[2]

\* time.Now().Unix() at start.
Clock == <<"1", "7">> \o Zeros(8)

T0 == <<"1">> \o Zeros(9)

T5 == <<"1">> \o Zeros(8) \o <<"5">>

T10 == <<"1">> \o Zeros(7) \o <<"1", "0">>

\* A history line as zsh writes it.
Rec(time, duration, command) ==
    <<":", " ">> \o time \o <<":">> \o duration \o <<";">> \o command

\* Physical lines for the merge: two commands run at the same time, one of
\* them also recorded with another duration and at a later time.
MergePool ==
    { Rec(T5, <<"0">>, <<"a">>),
      Rec(T5, <<"0">>, <<"b">>),
      Rec(T5, <<"1">>, <<"b">>),
      Rec(T10, <<"2">>, <<"b">>) }

\* Physical lines for the error paths: records, a line that fails the
\* grammar, a record whose timestamp does not fit 64 bits.
FaultPool ==
    { Rec(T5, <<"0">>, <<"b">>),
      Rec(T10, <<"2">>, <<"b">>),
      <<"j", "u", "n", "k">>,
      Rec(<<"1">> \o Zeros(19), <<"0">>, <<"a">>) }

\* Physical lines for the text path: a record that ends in a backslash, a
\* plain line, a line holding a colon and ten digits, a plain record, a
\* record with an 11-digit timestamp, a record with leading zeros.
TextPool ==
    { Rec(T0, <<"0">>, <<"a", BS>>),
      <<"b">>,
      <<"x", ":">> \o T0,
      Rec(T5, <<"0">>, <<"c">>),
      Rec(<<"1">> \o Zeros(10), <<"0">>, <<"d">>),
      Rec(Zeros(9) \o <<"1">>, <<"0">>, <<"e">>) }

\* Physical lines for the join: a record that ends in a backslash, a
\* continuation line that ends in a backslash, a plain continuation line, a
\* plain record, a line that ends in two backslashes.
JoinPool ==
    { Rec(T0, <<"0">>, <<"a", BS>>),
      <<"b", BS>>,
      <<"c">>,
      Rec(T5, <<"0">>, <<"d">>),
      <<"e", BS, BS>> }

\* Physical lines for the encoding: a record with an invalid byte in its
\* command, a record whose command is a valid two-byte character, a record
\* with a lead byte and a continuation byte apart, a record with an invalid
\* byte in its timestamp, a line of two invalid bytes.
EncPool ==
    { Rec(T5, <<"0">>, <<"a", InvalidByte, "b">>),
      Rec(T10, <<"0">>, <<LeadByte, ContByte>>),
      Rec(T0, <<"0">>, <<LeadByte, "z", ContByte>>),
      <<":", " ", "1", "0", "0", "0", "0", InvalidByte, "0", "0", "0", "0",
        ":", "0", ";", "c">>,
      <<InvalidByte, InvalidByte>> }

\* Physical lines for the split: records whose commands hold semicolons
\* and differ only after one, a command that is a semicolon, a command
\* without one.
SemiPool ==
    { Rec(T5, <<"0">>, <<"c", ";", "d">>),
      Rec(T5, <<"0">>, <<"c", ";", "e">>),
      Rec(T10, <<"0">>, <<";">>),
      Rec(T0, <<"0">>, <<"c">>) }

\* Physical lines for the blank lines: two records, a line that fails the
\* grammar, an empty line.
BlankPool ==
    { Rec(T5, <<"0">>, <<"b">>),
      Rec(T10, <<"2">>, <<"a">>),
      <<"j", "u", "n", "k">>,
      <<>> }

T9 == <<"1">> \o Zeros(8)

\* Physical lines for the grammar, each with a command of its own: a record,
\* a record with an 11-digit timestamp and a two-digit duration, a
\* timestamp of nine digits, no space after the marker, two spaces, a tab
\* for the space, an empty duration, text before the marker, no semicolon.
GrammarPool ==
    { Rec(T5, <<"0">>, <<"a">>),
      Rec(T5 \o <<"0">>, <<"1", "2">>, <<"b">>),
      Rec(T9, <<"0">>, <<"c">>),
      <<":">> \o T5 \o <<":", "0", ";", "d">>,
      <<":", " ", " ">> \o T5 \o <<":", "0", ";", "e">>,
      <<":", "\t">> \o T5 \o <<":", "0", ";", "f">>,
      <<":", " ">> \o T5 \o <<":", ";", "g">>,
      <<"x">> \o Rec(T5, <<"0">>, <<"h">>),
      <<":", " ">> \o T5 \o <<":", "0", "i">> }

\* Physical lines for the diagnostics: a record whose timestamp does not
\* fit 64 bits and that ends in a backslash, a continuation line, such a
\* record on one line, a record that parses.
DiagPool ==
    { Rec(<<"1">> \o Zeros(19), <<"0">>, <<"a", BS>>),
      <<"b">>,
      Rec(<<"1">> \o Zeros(19), <<"0">>, <<"c">>),
      Rec(T5, <<"0">>, <<"d">>) }

\* A file of the file system: its bytes, or that opening or reading it fails.
FileOf(physical) ==
    [err |-> "none",
     data |-> Flatten([i \in 1..Len(physical) |-> physical[i] \o <<NL>>])]

NoFile(err) == [err |-> err, data |-> <<>>]

\* The distinct paths of an argument list, ascending.
PathSeq(a) ==
    LET ps == Range(a)
    IN  CHOOSE t \in [1..Cardinality(ps) -> ps] :
            \A i, j \in DOMAIN t : i < j => StringLess(t[i], t[j])

\* The ways to cut n physical lines into k consecutive files: cut[i] is the
\* number of lines in the first i files.
Cuts(k, n) ==
    {cut \in [0..k -> 0..n] :
        /\ cut[0] = 0
        /\ cut[k] = n
        /\ \A i \in 1..k : cut[i - 1] <= cut[i]}

\* Which files cannot be opened or read; such a file holds no line.
Errs(k, cut) ==
    {errs \in [1..k -> {"none", "open", "read"}] :
        \A i \in 1..k : errs[i] # "none" => cut[i - 1] = cut[i]}

MakeFs(paths, all, cut, errs) ==
    [q \in Range(paths) |->
        LET i == CHOOSE j \in DOMAIN paths : paths[j] = q
        IN  IF errs[i] # "none" THEN NoFile(errs[i])
            ELSE FileOf(SubSeq(all, cut[i - 1] + 1, cut[i]))]

\* The argument lists: the first n paths of PathList, in any order.
ArgLists ==
    UNION {{a \in [1..n -> {PathList[i] : i \in 1..n}] :
               \A i, j \in 1..n : i # j => a[i] # a[j]} :
           n \in 0..(IF MaxFiles < Len(PathList) THEN MaxFiles ELSE Len(PathList))}

\* Every argument list of lists with every file system of at most MaxLines
\* physical lines of pool in all.
InputsOver(lists, pool) ==
    \E a \in lists :
      \E n \in 0..MaxLines :
        \E all \in [1..n -> pool] :
          \E cut \in Cuts(Cardinality(Range(a)), n) :
            \E errs \in Errs(Cardinality(Range(a)), cut) :
              /\ files = a
              /\ fs = MakeFs(PathSeq(a), all, cut, errs)

\* The scenario of the design document: file A and file B, given in either order.
ExampleFs ==
    [q \in {PathA, PathB} |->
        IF q = PathA
        THEN FileOf(<<Rec(T0, <<"0">>, <<"l", "s", " ", "-", "l", "a">>),
                      Rec(T5, <<"0">>, <<"e", "c", "h", "o", " ", "h", "i">>)>>)
        ELSE FileOf(<<Rec(T5, <<"1">>, <<"e", "c", "h", "o", " ", "h", "i">>),
                      Rec(T10, <<"0">>, <<"p", "w", "d">>)>>)]

ExampleInputs ==
    /\ files \in {<<PathA, PathB>>, <<PathB, PathA>>}
    /\ fs = ExampleFs

EmptyMap == [k \in {} |-> NoEntry]

InitRest ==
    /\ pc = "main"
    /\ now = Clock
    /\ multilineCommand = <<>>
    /\ commands = EmptyMap
    /\ fileIdx = 0
    /\ lines = <<>>
    /\ lineIdx = 0
    /\ entries = <<>>
    /\ emitIdx = 0
    /\ stdout = <<>>
    /\ stderr = <<>>
    /\ exitCode = -1
    /\ parsed = <<>>
    /\ emitted = <<>>
    /\ run = 1
    /\ stdout1 = <<>>

Init ==
    /\ InputsOver(ArgLists, MergePool) \/ ExampleInputs
    /\ InitRest

InitFaults ==
    /\ InputsOver(ArgLists, FaultPool)
    /\ InitRest

InitText ==
    /\ InputsOver({<<PathA>>}, TextPool)
    /\ InitRest

InitJoin ==
    /\ InputsOver({<<PathA>>}, JoinPool)
    /\ InitRest

InitEnc ==
    /\ InputsOver({<<PathA>>}, EncPool)
    /\ InitRest

InitSemi ==
    /\ InputsOver({<<PathA>>}, SemiPool)
    /\ InitRest

InitDiag ==
    /\ InputsOver(ArgLists, DiagPool)
    /\ InitRest

InitGrammar ==
    /\ InputsOver({<<PathA>>}, GrammarPool)
    /\ InitRest

InitTwice ==
    /\ InputsOver({<<PathA>>}, MergePool)
    /\ InitRest

\* Physical lines for the restoration: a record that ends in a backslash, a
\* continuation line that ends in a backslash, a plain continuation line, a
\* record whose command holds the characters of the run's token, a plain
\* record.
TokenPool ==
    { Rec(T0, <<"0">>, <<"a", BS>>),
      <<"b", BS>>,
      <<"c">>,
      Rec(T5, <<"0">>, <<"x">> \o Placeholder(Clock)),
      Rec(T10, <<"0">>, <<"d">>) }

InitToken ==
    /\ InputsOver({<<PathA>>}, TokenPool)
    /\ InitRest

\* One file of lines of JoinPool, its last line with or without the newline
\* that ends it.
InitTail ==
    /\ \E n \in 0..MaxLines :
         \E all \in [1..n -> JoinPool] :
           \E ended \in BOOLEAN :
             LET data == FileOf(all).data
             IN  /\ files = <<PathA>>
                 /\ fs = [q \in {PathA} |->
                            [err  |-> "none",
                             data |-> IF ended \/ n = 0 THEN data
                                      ELSE SubSeq(data, 1, Len(data) - 1)]]
    /\ InitRest

\* Physical lines for the frame of the merge: records of two commands, one
\* of them at two times, and a line that fails the validator.
FramePool ==
    { Rec(T5, <<"0">>, <<"a">>),
      Rec(T5, <<"1">>, <<"b">>),
      Rec(T10, <<"2">>, <<"b">>),
      <<"j", "u", "n", "k">> }

\* Argument lists for the runs as a whole: none, one file, two files not
\* in ascending order.
RunLists == {<<>>, <<PathA>>, <<PathB, PathA>>}

InitFrame ==
    /\ InputsOver(RunLists, FramePool)
    /\ InitRest

InitLive ==
    /\ InputsOver(RunLists, FaultPool)
    /\ InitRest

\* Two files of lines of MergePool, given in either order.
InitOrder ==
    /\ InputsOver({<<PathA, PathB>>, <<PathB, PathA>>}, MergePool)
    /\ InitRest

InitBlank ==
    /\ InputsOver(ArgLists, BlankPool)
    /\ InitRest

Diag(kind, file, text) == [kind |-> kind, file |-> file, text |-> text]

\* Fatal as log.Printf: the message is written and the run goes on.
FatalAsWarning(cause, text) ==
    /\ stderr' = Append(stderr, Diag(cause, files[fileIdx], text))
    /\ exitCode' = exitCode
    /\ pc' = "lines"

\* log.Fatalf("Error processing %s: %v", histFile, err): the message, exit 1.
Fatal(cause, text) ==
    /\ stderr' = Append(stderr, Diag(cause, files[fileIdx], text))
    /\ exitCode' = 1
    /\ pc' = "exit"

\* Main without the test of len(os.Args).
MainNoUsage ==
    /\ pc = "main"
    /\ multilineCommand' = Placeholder(now)
    /\ commands' = EmptyMap
    /\ files' = sortStrings(files)
    /\ fileIdx' = 1
    /\ pc' = "loop"
    /\ UNCHANGED <<fs, now, lines, lineIdx, entries, emitIdx, stdout, stderr,
                   exitCode, parsed, emitted, run, stdout1>>

\* main up to the loop: the usage exit, the placeholder, the map, the sort.
Main ==
    /\ pc = "main"
    /\ IF Len(files) < 1
       THEN /\ stderr' = Append(stderr, Diag("usage", <<>>, <<>>))
            /\ exitCode' = 1
            /\ pc' = "exit"
            /\ UNCHANGED <<files, multilineCommand, commands, fileIdx>>
       ELSE /\ multilineCommand' = Placeholder(now)
            /\ commands' = EmptyMap
            /\ files' = sortStrings(files)
            /\ fileIdx' = 1
            /\ pc' = "loop"
            /\ UNCHANGED <<stderr, exitCode>>
    /\ UNCHANGED <<fs, now, lines, lineIdx, entries, emitIdx, stdout, parsed,
                   emitted, run, stdout1>>

\* The loop of main takes the next file and writes its progress note.
ParsingNote ==
    /\ pc = "loop"
    /\ fileIdx <= Len(files)
    /\ stderr' = Append(stderr, Diag("parsing", files[fileIdx], <<>>))
    /\ pc' = "process"
    /\ UNCHANGED <<files, fs, now, multilineCommand, commands, fileIdx, lines,
                   lineIdx, entries, emitIdx, stdout, exitCode, parsed,
                   emitted, run, stdout1>>

\* processHistoryFile up to its loop: open, read, normalise, split.
OpenAndRead ==
    /\ pc = "process"
    /\ LET file == fs[files[fileIdx]]
       IN  IF file.err # "none"
           THEN /\ Fatal(file.err, <<>>)
                /\ UNCHANGED <<lines, lineIdx>>
           ELSE /\ lines' = Split(replaceMultilineCommands(
                                     readFileContent(file.data), multilineCommand), NL)
                /\ lineIdx' = 1
                /\ pc' = "lines"
                /\ UNCHANGED <<stderr, exitCode>>
    /\ UNCHANGED <<files, fs, now, multilineCommand, commands, fileIdx, entries,
                   emitIdx, stdout, parsed, emitted, run, stdout1>>

\* ProcessLine printing each entry as soon as it is stored.
ProcessLineStreaming ==
    /\ pc = "lines"
    /\ lineIdx <= Len(lines)
    /\ LET line == lines[lineIdx]
       IN  IF skipLine(line)
           THEN /\ lineIdx' = lineIdx + 1
                /\ UNCHANGED <<pc, commands, parsed, stderr, exitCode, stdout,
                               emitted>>
           ELSE LET r == parseHistoryLine(line)
                IN  IF r.err # "none"
                    THEN /\ Fatal(r.err, line)
                         /\ UNCHANGED <<lineIdx, commands, parsed, stdout, emitted>>
                    ELSE /\ commands' = mergeEntry(commands, r.entry)
                         /\ parsed' = Append(parsed, r.entry)
                         /\ lineIdx' = lineIdx + 1
                         /\ stdout' = IF shouldStore(commands, r.entry)
                                       THEN stdout \o formatEntry(r.entry, multilineCommand)
                                       ELSE stdout
                         /\ emitted' = IF shouldStore(commands, r.entry)
                                        THEN Append(emitted, r.entry)
                                        ELSE emitted
                         /\ UNCHANGED <<pc, stderr, exitCode>>
    /\ UNCHANGED <<files, fs, now, multilineCommand, fileIdx, lines, entries,
                   emitIdx, run, stdout1>>

\* One iteration of the loop of processHistoryFile.
ProcessLine ==
    /\ pc = "lines"
    /\ lineIdx <= Len(lines)
    /\ LET line == lines[lineIdx]
       IN  IF skipLine(line)
           THEN /\ lineIdx' = lineIdx + 1
                /\ UNCHANGED <<pc, commands, parsed, stderr, exitCode>>
           ELSE LET r == parseHistoryLine(line)
                IN  IF r.err # "none"
                    THEN /\ Fatal(r.err, line)
                         /\ UNCHANGED <<lineIdx, commands, parsed>>
                    ELSE /\ commands' = mergeEntry(commands, r.entry)
                         /\ parsed' = Append(parsed, r.entry)
                         /\ lineIdx' = lineIdx + 1
                         /\ UNCHANGED <<pc, stderr, exitCode>>
    /\ UNCHANGED <<files, fs, now, multilineCommand, fileIdx, lines, entries,
                   emitIdx, stdout, emitted, run, stdout1>>

\* FileDone going back to the same file.
FileDoneRetry ==
    /\ pc = "lines"
    /\ lineIdx > Len(lines)
    /\ fileIdx' = fileIdx
    /\ pc' = "loop"
    /\ UNCHANGED <<files, fs, now, multilineCommand, commands, lines, lineIdx,
                   entries, emitIdx, stdout, stderr, exitCode, parsed, emitted,
                   run, stdout1>>

\* processHistoryFile returns nil: main goes on to the next file.
FileDone ==
    /\ pc = "lines"
    /\ lineIdx > Len(lines)
    /\ fileIdx' = fileIdx + 1
    /\ pc' = "loop"
    /\ UNCHANGED <<files, fs, now, multilineCommand, commands, lines, lineIdx,
                   entries, emitIdx, stdout, stderr, exitCode, parsed, emitted,
                   run, stdout1>>

\* SortEntries with the loop over the entries started at the second entry.
SortEntriesFromSecond ==
    /\ pc = "loop"
    /\ fileIdx > Len(files)
    /\ \E e \in sortedEntries(commands) : entries' = e
    /\ emitIdx' = 2
    /\ pc' = "emit"
    /\ UNCHANGED <<files, fs, now, multilineCommand, commands, fileIdx, lines,
                   lineIdx, stdout, stderr, exitCode, parsed, emitted, run,
                   stdout1>>

\* outputMergedCommands up to its loop: the map to a slice, sorted.
SortEntries ==
    /\ pc = "loop"
    /\ fileIdx > Len(files)
    /\ \E e \in sortedEntries(commands) : entries' = e
    /\ emitIdx' = 1
    /\ pc' = "emit"
    /\ UNCHANGED <<files, fs, now, multilineCommand, commands, fileIdx, lines,
                   lineIdx, stdout, stderr, exitCode, parsed, emitted, run,
                   stdout1>>

\* One iteration of the loop of outputMergedCommands.
EmitEntry ==
    /\ pc = "emit"
    /\ emitIdx <= Len(entries)
    /\ stdout' = stdout \o formatEntry(entries[emitIdx], multilineCommand)
    /\ emitted' = Append(emitted, entries[emitIdx])
    /\ emitIdx' = emitIdx + 1
    /\ UNCHANGED <<pc, files, fs, now, multilineCommand, commands, fileIdx,
                   lines, lineIdx, entries, stderr, exitCode, parsed, run,
                   stdout1>>

\* main returns.
Return ==
    /\ pc = "emit"
    /\ emitIdx > Len(entries)
    /\ exitCode' = 0
    /\ pc' = "exit"
    /\ UNCHANGED <<files, fs, now, multilineCommand, commands, fileIdx, lines,
                   lineIdx, entries, emitIdx, stdout, stderr, parsed, emitted,
                   run, stdout1>>

\* A second run whose only input is a file holding the output of the first.
Rerun ==
    /\ run = 1
    /\ pc = "exit"
    /\ exitCode = 0
    /\ run' = 2
    /\ stdout1' = stdout
    /\ files' = <<PathA>>
    /\ fs' = [q \in {PathA} |-> [err |-> "none", data |-> stdout]]
    /\ pc' = "main"
    /\ multilineCommand' = <<>>
    /\ commands' = EmptyMap
    /\ fileIdx' = 0
    /\ lines' = <<>>
    /\ lineIdx' = 0
    /\ entries' = <<>>
    /\ emitIdx' = 0
    /\ stdout' = <<>>
    /\ stderr' = <<>>
    /\ exitCode' = -1
    /\ parsed' = <<>>
    /\ emitted' = <<>>
    /\ UNCHANGED now

\* main of the strict variant.  After the usage exit, the placeholder, the
\* map and the sort it compiles multilineRegex, a pattern with the lookahead
\* (?!...) that the regexp package does not support: MustCompile panics, the
\* run ends with the panic message and status 2 before a file is opened, and
\* processHistoryFile of the variant is never entered.
StrictMain ==
    /\ pc = "main"
    /\ IF Len(files) < 1
       THEN /\ stderr' = Append(stderr, Diag("usage", <<>>, <<>>))
            /\ exitCode' = 1
            /\ UNCHANGED <<files, multilineCommand, commands>>
       ELSE /\ multilineCommand' = Placeholder(now)
            /\ commands' = EmptyMap
            /\ files' = sortStrings(files)
            /\ stderr' = Append(stderr, Diag("panic", <<>>, <<>>))
            /\ exitCode' = 2
    /\ pc' = "exit"
    /\ UNCHANGED <<fs, now, fileIdx, lines, lineIdx, entries, emitIdx, stdout,
                   parsed, emitted, run, stdout1>>

\* A second run on the files of the first.
RunAgain ==
    /\ run = 1
    /\ pc = "exit"
    /\ exitCode = 0
    /\ run' = 2
    /\ stdout1' = stdout
    /\ pc' = "main"
    /\ multilineCommand' = <<>>
    /\ commands' = EmptyMap
    /\ fileIdx' = 0
    /\ lines' = <<>>
    /\ lineIdx' = 0
    /\ entries' = <<>>
    /\ emitIdx' = 0
    /\ stdout' = <<>>
    /\ stderr' = <<>>
    /\ exitCode' = -1
    /\ parsed' = <<>>
    /\ emitted' = <<>>
    /\ UNCHANGED <<files, fs, now>>

\* A second run that is given the file of the first run twice: the same
\* path two times, or two paths that hold the same bytes.
RunDoubled ==
    /\ run = 1
    /\ pc = "exit"
    /\ exitCode = 0
    /\ run' = 2
    /\ stdout1' = stdout
    /\ \/ /\ files' = <<PathA, PathA>>
          /\ fs' = fs
       \/ /\ files' = <<PathA, PathB>>
          /\ fs' = [q \in {PathA, PathB} |-> fs[PathA]]
    /\ pc' = "main"
    /\ multilineCommand' = <<>>
    /\ commands' = EmptyMap
    /\ fileIdx' = 0
    /\ lines' = <<>>
    /\ lineIdx' = 0
    /\ entries' = <<>>
    /\ emitIdx' = 0
    /\ stdout' = <<>>
    /\ stderr' = <<>>
    /\ exitCode' = -1
    /\ parsed' = <<>>
    /\ emitted' = <<>>
    /\ UNCHANGED now

Next ==
    \/ Main
    \/ ParsingNote
    \/ OpenAndRead
    \/ ProcessLine
    \/ FileDone
    \/ SortEntries
    \/ EmitEntry
    \/ Return

NextRerun == Next \/ Rerun

Spec == Init /\ [][Next]_vars

SpecFaults == InitFaults /\ [][Next]_vars

SpecRerun == InitText /\ [][NextRerun]_vars

SpecJoin == InitJoin /\ [][Next]_vars

SpecEnc == InitEnc /\ [][Next]_vars

SpecSemi == InitSemi /\ [][Next]_vars

SpecDiag == InitDiag /\ [][Next]_vars

SpecGrammar == InitGrammar /\ [][Next]_vars

SpecToken == InitToken /\ [][Next]_vars

SpecTail == InitTail /\ [][Next]_vars

SpecFrame == InitFrame /\ [][Next]_vars

\* The run is one sequential process that waits for nothing: the step it
\* is at is taken.  OpenAndRead can be taken exactly when pc = "process" and
\* ProcessLine exactly when a line is left, and each of them changes pc or
\* lineIdx: their weak fairness is written with these conditions.
Fairness ==
    /\ WF_vars(Main)
    /\ WF_vars(ParsingNote)
    /\ []<>(pc # "process") \/ []<><<OpenAndRead>>_vars
    /\ []<>(~(pc = "lines" /\ lineIdx <= Len(lines))) \/ []<><<ProcessLine>>_vars
    /\ WF_vars(FileDone)
    /\ WF_vars(SortEntries)
    /\ WF_vars(EmitEntry)
    /\ WF_vars(Return)

SpecLive == InitLive /\ [][Next]_vars /\ Fairness

SpecOrder == InitOrder /\ [][Next]_vars

SpecBlank == InitBlank /\ [][Next]_vars

NextTwice == Next \/ RunAgain

SpecTwice == InitTwice /\ [][NextTwice]_vars

NextDoubled == Next \/ RunDoubled

SpecDoubled == InitTwice /\ [][NextDoubled]_vars

NextStrict == StrictMain

SpecStrict == InitBlank /\ [][NextStrict]_vars

\* --------------------------------------------------------- properties

Succeeded == pc = "exit" /\ exitCode = 0

Aborted == pc = "exit" /\ exitCode = 1

\* The entries parsed so far whose command is c.
ParsedOf(c) == {i \in DOMAIN parsed : parsed[i].Command = c}

\* The greatest executed_at parsed so far for command c.
MaxTimeOf(c) ==
    CHOOSE t \in {parsed[i].Time : i \in ParsedOf(c)} :
        \A i \in ParsedOf(c) : NumLeq(parsed[i].Time, t)

\* The first entry, in processing order, that carries MaxTimeOf(c).
FirstMaxOf(c) ==
    parsed[CHOOSE i \in ParsedOf(c) :
              /\ parsed[i].Time = MaxTimeOf(c)
              /\ \A j \in ParsedOf(c) : parsed[j].Time = MaxTimeOf(c) => i <= j]

EmittedOf(c) == {k \in DOMAIN emitted : emitted[k].Command = c}

\* The physical lines of a readable file, as the loader's scanner yields them.
Physical(p) == ScanLines(fs[p].data)

\* The logical lines of a readable file.
Logical(p) ==
    Split(replaceMultilineCommands(readFileContent(fs[p].data),
                                   Placeholder(now)), NL)

Readable(p) == fs[p].err = "none"

\* C1: on a successful run, for any two parsed records with the same command
\* text and distinct executed_at, the output holds exactly one record for
\* that command; it carries the greatest executed_at of the command and the
\* duration of an input line that carries that executed_at.
C1_DedupCorrectness ==
    Succeeded =>
        \A i, j \in DOMAIN parsed :
            (parsed[i].Command = parsed[j].Command /\ parsed[i].Time # parsed[j].Time)
            => /\ Cardinality(EmittedOf(parsed[i].Command)) = 1
               /\ \A k \in EmittedOf(parsed[i].Command) :
                    /\ emitted[k].Time = MaxTimeOf(parsed[i].Command)
                    /\ \E m \in DOMAIN parsed : parsed[m] = emitted[k]

\* A run over two files ended well after an older record of a command was
\* met after a newer one.
C1_Witness ==
    /\ Succeeded
    /\ Len(files) = 2
    /\ \E i, j \in DOMAIN parsed :
        /\ i < j
        /\ parsed[i].Command = parsed[j].Command
        /\ NumLess(parsed[j].Time, parsed[i].Time)

\* C2: in every state, the keys of the merge table are the commands parsed
\* so far, and each stored record's executed_at is the greatest executed_at
\* parsed so far for its command.
C2_MergeTableMax ==
    /\ DOMAIN commands = {parsed[i].Command : i \in DOMAIN parsed}
    /\ \A k \in DOMAIN commands : commands[k].Time = MaxTimeOf(k)

\* In the middle of a file, a command has been parsed three times and the
\* last record was not the newest.
C2_Witness ==
    /\ pc = "lines"
    /\ \E k \in DOMAIN commands :
        /\ Cardinality(ParsedOf(k)) >= 3
        /\ parsed[Len(parsed)].Command = k
        /\ NumLess(parsed[Len(parsed)].Time, commands[k].Time)

\* C3: the records are emitted in non-decreasing order of executed_at.
C3_TotalOrder ==
    \A i, j \in DOMAIN emitted :
        i < j => NumLeq(emitted[i].Time, emitted[j].Time)

\* Two records with different timestamps have been emitted.
C3_Witness ==
    /\ Len(emitted) >= 2
    /\ emitted[1].Time # emitted[2].Time

\* C4: a second run whose only input is the output of the first run ends
\* well and writes the same bytes.
C4_Idempotence ==
    (run = 2 /\ pc = "exit") => (exitCode = 0 /\ stdout = stdout1)

\* The record-start grammar: the field marker at the start of the line, a
\* timestamp of at least ten digits, a colon.
StartsRecord(line) ==
    /\ Len(line) >= 1
    /\ line[1] = ":"
    /\ LET j == SkipSpace(line, 2)
           n == DigitRun(line, j)
       IN  /\ n >= TimestampMinDigits
           /\ j + n <= Len(line)
           /\ line[j + n] = ":"

\* Physical line i continues on the next physical line.
Continues(physical, i) ==
    /\ HasSuffix(physical[i], BS)
    /\ i < Len(physical)
    /\ ~StartsRecord(physical[i + 1])

\* The text of the record that starts at physical line i, with its
\* continuation lines.
RECURSIVE RecordText(_, _)
RecordText(physical, i) ==
    IF Continues(physical, i)
    THEN physical[i] \o <<NL>> \o RecordText(physical, i + 1)
    ELSE physical[i]

\* C5: on a successful run, every input record with a continuation is
\* emitted with its command text unchanged, each backslash-newline where it was.
C5_MultilineRoundTrip ==
    (run = 1 /\ Succeeded) =>
        \A p \in DOMAIN fs :
            \A i \in DOMAIN Physical(p) :
                (validLineRegex(Physical(p)[i]) /\ Continues(Physical(p), i))
                => \E k \in DOMAIN emitted :
                      restoreCommand(emitted[k].Command, multilineCommand)
                        = SplitN2(RecordText(Physical(p), i), ";")[2]

\* The entries of the well-formed logical lines of all input files.
WellFormed ==
    {parseHistoryLine(l).entry :
        l \in UNION {{x \in Range(Logical(p)) : x # <<>> /\ validLineRegex(x)} :
                     p \in {q \in DOMAIN fs : Readable(q)}}}

\* C6: a line that fails the grammar never aborts the run, and a successful
\* run emits exactly one record per command of the well-formed lines, each
\* the record of a well-formed line.
C6_LenientPolicy ==
    /\ Aborted =>
          LET d == stderr[Len(stderr)]
          IN  d.kind \in {"usage", "open", "read"} \/ validLineRegex(d.text)
    /\ Succeeded =>
          /\ Range(emitted) \subseteq WellFormed
          /\ \A e \in WellFormed : Cardinality(EmittedOf(e.Command)) = 1
          /\ Len(emitted) = Cardinality({e.Command : e \in WellFormed})

\* A run ended well over a file that mixes a record with a line that fails
\* the grammar, and the record was emitted.
C6_Witness ==
    /\ Succeeded
    /\ emitted # <<>>
    /\ \E p \in DOMAIN fs :
        /\ \E l \in Range(Logical(p)) : l # <<>> /\ ~validLineRegex(l)
        /\ \E l \in Range(Logical(p)) : validLineRegex(l)

\* C7: nothing is written to the output while a file is unprocessed: once a
\* record has been written, the loop over the files is over and every
\* logical line of the last file has been taken.
C7_NoStreaming ==
    (stdout # <<>> \/ emitted # <<>>) =>
        /\ pc \in {"emit", "exit"}
        /\ fileIdx > Len(files)
        /\ lineIdx > Len(lines)

\* The first record of a run over two files is being written.
C7_Witness ==
    /\ pc = "emit"
    /\ Len(files) = 2
    /\ Len(emitted) = 1
    /\ Len(parsed) >= 2

\* The file cannot be opened or read, or a line of it passes the validator
\* and does not parse.
FileFails(p) ==
    \/ ~Readable(p)
    \/ \E l \in Range(Logical(p)) :
          l # <<>> /\ validLineRegex(l) /\ parseHistoryLine(l).err # "none"

FatalKinds ==
    {"open", "read", "invalid history line format", "invalid timestamp format",
     "invalid timestamp", "invalid duration"}

\* The run has not got past file i, has not ended well and has written no
\* record.
Held(i) ==
    /\ fileIdx <= i
    /\ exitCode # 0
    /\ stdout = <<>>
    /\ (fileIdx = i => pc \in {"loop", "process", "lines", "exit"})
    /\ (fileIdx = i /\ pc = "lines" => Readable(files[i]))

ExampleEmitted ==
    << [Command |-> <<"l", "s", " ", "-", "l", "a">>,
        Time |-> T0, Duration |-> <<"0">>],
       [Command |-> <<"e", "c", "h", "o", " ", "h", "i">>,
        Time |-> T5, Duration |-> <<"0">>],
       [Command |-> <<"p", "w", "d">>,
        Time |-> T10, Duration |-> <<"0">>] >>

\* C9: the stored record of a command is the first record, in file-then-line
\* order, among those that carry the command's greatest executed_at; the
\* example of two files yields ls -la, echo hi, pwd, with the duration of
\* echo hi from file A.
C9_TiePolicy ==
    /\ \A k \in DOMAIN commands : commands[k] = FirstMaxOf(k)
    /\ (fs = ExampleFs /\ Succeeded) => emitted = ExampleEmitted

\* The example has run to its end.
C9_Witness ==
    /\ fs = ExampleFs
    /\ Succeeded
    /\ Len(parsed) = 4

\* The files whose progress note has been written.
Notes ==
    LET ns == SelectSeq(stderr, LAMBDA d : d.kind = "parsing")
    IN  [i \in 1..Len(ns) |-> ns[i].file]

\* The number of files taken up so far.
Started == IF pc = "loop" THEN fileIdx - 1
           ELSE IF fileIdx > Len(files) THEN Len(files) ELSE fileIdx

\* C10: after the sort the files are the given paths in ascending lexical
\* order; the progress notes written so far name the files taken up so far,
\* in that order, each written before a line of its file is merged; a file
\* is taken up only when every line of the previous one has been taken.
C10_FileOrder ==
    (pc # "main" /\ Len(files) > 0) =>
        /\ Range(files) = DOMAIN fs
        /\ \A i, j \in DOMAIN files : i < j => StringLess(files[i], files[j])
        /\ Notes = SubSeq(files, 1, Started)
        /\ (pc \in {"loop", "process"} /\ fileIdx > 1) => lineIdx > Len(lines)

\* The second of two files is being merged.
C10_Witness ==
    /\ pc = "lines"
    /\ fileIdx = 2
    /\ Len(parsed) >= 2
    /\ lineIdx > 1

\* t occurs in s as a run of consecutive characters.
IsInfix(t, s) == \E k \in 1..(Len(s) + 1) : HasPrefixAt(s, k, t)

IsPrefix(t, s) == HasPrefixAt(s, 1, t)

IsSuffix(t, s) == Len(t) <= Len(s) /\ HasPrefixAt(s, Len(s) - Len(t) + 1, t)

\* C11: a physical line that ends in a backslash is joined to the next
\* physical line (the placeholder between them, on one logical line) unless
\* the next line starts with the record-start grammar; a next line that only
\* holds a colon and ten digits further on is joined; before a next line
\* that starts a record the line stays a logical line of its own, backslash
\* kept.
C11_ContinuationDetection ==
    pc = "lines" =>
        LET ph == Physical(files[fileIdx])
        IN  \A i \in 1..(Len(ph) - 1) :
                HasSuffix(ph[i], BS) =>
                    IF StartsRecord(ph[i + 1])
                    THEN \E k \in 1..(Len(lines) - 1) :
                            /\ IsSuffix(ph[i], lines[k])
                            /\ IsPrefix(TrimSuffix(ph[i + 1], BS), lines[k + 1])
                    ELSE \E k \in DOMAIN lines :
                            IsInfix(TrimSuffix(ph[i], BS) \o multilineCommand
                                      \o TrimSuffix(ph[i + 1], BS), lines[k])

\* The lines the normaliser works on: the physical lines and the empty
\* rest after the last newline.
Pieces(p) == Physical(p) \o << <<>> >>

\* The last line of the chain of continued lines that starts at line i.
ChainEnd(ph, i) ==
    CHOOSE j \in i..Len(ph) :
        ~Continues(ph, j) /\ \A m \in i..(j - 1) : Continues(ph, m)

\* Lines i..j on one logical line: each but the last without its one
\* trailing backslash and with the token in its place, nothing between.
Joined(ph, i, j, token) ==
    Flatten([m \in 1..(j - i + 1) |->
                IF i + m - 1 < j
                THEN SubSeq(ph[i + m - 1], 1, Len(ph[i + m - 1]) - 1) \o token
                ELSE ph[j]])

\* The number of places of s where t starts.
CountOf(t, s) == Cardinality({k \in 1..Len(s) : HasPrefixAt(s, k, t)})

\* C12: every chain of N continued lines and the line that follows them
\* make one logical line: each continued line without its one trailing
\* backslash, the placeholder token in its place, no newline, the next line
\* directly after; the logical line holds exactly N tokens, and there is one
\* logical line per chain.
C12_ContinuationJoin ==
    pc = "lines" =>
        LET ph     == Pieces(files[fileIdx])
            starts == {i \in DOMAIN ph : i = 1 \/ ~Continues(ph, i - 1)}
        IN  /\ Len(lines) = Cardinality(starts)
            /\ \A i \in starts :
                  LET k == Cardinality({t \in starts : t <= i})
                      j == ChainEnd(ph, i)
                  IN  /\ lines[k] = Joined(ph, i, j, multilineCommand)
                      /\ CountOf(multilineCommand, lines[k]) = j - i

\* A record continued over two further lines is one logical line with two
\* tokens, and it has been merged.
C12_Witness ==
    /\ pc = "lines"
    /\ lineIdx = 2
    /\ validLineRegex(lines[1])
    /\ CountOf(multilineCommand, lines[1]) = 2
    /\ Len(parsed) = 1
    /\ CountOf(multilineCommand, parsed[1].Command) = 2

\* C13: every record on the output starts with a line in the canonical
\* form, the form the validator accepts: the field marker, one space, a
\* timestamp of at least ten digits, a colon, the duration, a semicolon.  The
\* lines of the output that start a record are the first and every line after
\* a line that does not end in a backslash.
C13_CanonicalFormat ==
    LET out == ScanLines(stdout)
    IN  \A i \in DOMAIN out :
            (i = 1 \/ ~HasSuffix(out[i - 1], BS)) => validLineRegex(out[i])

\* Byte i of l belongs to a validly encoded character: an ASCII character,
\* or one of the two bytes of a two-byte sequence.
InChar(l, i) ==
    \/ l[i] \notin {InvalidByte, LeadByte, ContByte}
    \/ \E j \in {i - 1, i} :
          /\ j >= 1
          /\ j + 1 <= Len(l)
          /\ l[j] = LeadByte
          /\ l[j + 1] = ContByte

\* The line with one marker for each byte that belongs to no character.
Repaired(l) == [i \in 1..Len(l) |-> IF InChar(l, i) THEN l[i] ELSE "#"]

\* The text after the first semicolon of l.
Body(l) == SubSeq(l, IndexFrom(l, ";", 1) + 1, Len(l))

\* C14: invalid bytes never abort the run; the loaded lines are the
\* physical lines with exactly one '#' for each byte that belongs to no
\* valid character and every other byte unchanged, in order; on a
\* successful run every line that is a record after the repair is emitted
\* under its repaired command.
C14_EncodingRobustness ==
    /\ Aborted => stderr[Len(stderr)].kind \in {"usage", "open", "read"}
    /\ pc = "lines" =>
          LET ph == Physical(files[fileIdx])
          IN  lines = [i \in 1..Len(ph) |-> Repaired(ph[i])] \o << <<>> >>
    /\ Succeeded =>
          \A p \in DOMAIN fs :
              \A l \in Range(Physical(p)) :
                  validLineRegex(Repaired(l))
                  => \E k \in DOMAIN emitted :
                        emitted[k].Command = Body(Repaired(l))

\* A run ended well and emitted a command with a marker for an invalid
\* byte, a command with a valid two-byte character, and a command with a
\* marker for each of two bytes of a broken sequence.
C14_Witness ==
    /\ Succeeded
    /\ \E k \in DOMAIN emitted : emitted[k].Command = <<"a", "#", "b">>
    /\ \E k \in DOMAIN emitted : emitted[k].Command = <<LeadByte, ContByte>>
    /\ \E k \in DOMAIN emitted : emitted[k].Command = <<"#", "z", "#">>

\* The command bodies of the accepted logical lines of file p.
Bodies(p) == {Body(l) : l \in {x \in Range(Logical(p)) : validLineRegex(x)}}

\* C15: the command of an accepted logical line is the text after its
\* first semicolon up to its end, later semicolons included; on a
\* successful run every such text is a command of its own in the table and
\* on the output.
C15_FirstSemicolon ==
    /\ (pc = "lines" /\ lineIdx > 1 /\ validLineRegex(lines[lineIdx - 1]))
          => /\ parsed # <<>>
             /\ parsed[Len(parsed)].Command = Body(lines[lineIdx - 1])
    /\ Succeeded =>
          LET all == UNION {Bodies(p) : p \in DOMAIN fs}
          IN  /\ DOMAIN commands = all
              /\ \A b \in all : Cardinality(EmittedOf(b)) = 1

\* A run ended well with three commands that start alike and differ after
\* the first semicolon of their lines.
C15_Witness ==
    /\ Succeeded
    /\ {<<"c", ";", "d">>, <<"c", ";", "e">>, <<"c">>} \subseteq DOMAIN commands
    /\ Len(emitted) = 3

\* The non-empty logical lines of file p that fail the record grammar, in
\* order.
Offending(p) ==
    SelectSeq(Logical(p), LAMBDA l : l # <<>> /\ ~validLineRegex(l))

\* The number of logical lines of file p that the validator accepts.
Accepted(p) == Len(SelectSeq(Logical(p), LAMBDA l : validLineRegex(l)))

RECURSIVE AcceptedUpTo(_)
\* The number of accepted logical lines in the first n files.
AcceptedUpTo(n) ==
    IF n = 0 THEN 0 ELSE AcceptedUpTo(n - 1) + Accepted(files[n])

AllReadable == \A p \in DOMAIN fs : Readable(p)

\* C16: a strict run over readable files of which one holds a non-empty
\* line that fails the grammar ends with status 1 and a fatal diagnostic
\* that names the file and every offending line of it; only the records of
\* the files before it have been merged, and nothing is on the output.
C16_StrictValidation ==
    (pc = "exit" /\ AllReadable /\ \E i \in DOMAIN files : Offending(files[i]) # <<>>)
    => LET f == CHOOSE i \in DOMAIN files :
                   /\ Offending(files[i]) # <<>>
                   /\ \A j \in 1..(i - 1) : Offending(files[j]) = <<>>
       IN  /\ exitCode = 1
           /\ stdout = <<>>
           /\ stderr # <<>>
           /\ stderr[Len(stderr)].file = files[f]
           /\ stderr[Len(stderr)].text = Offending(files[f])
           /\ Len(parsed) = AcceptedUpTo(f - 1)

\* The commands of the logical lines of all files that pass the grammar and
\* whose numbers parse.
ParseableCommands ==
    {parseHistoryLine(l).entry.Command :
        l \in UNION {{x \in Range(Logical(p)) :
                         validLineRegex(x) /\ parseHistoryLine(x).err = "none"} :
                     p \in {q \in DOMAIN fs : Readable(q)}}}

\* C17: a logical line whose timestamp or duration does not parse never
\* aborts the run: a run aborts only for want of arguments or for a file
\* that cannot be opened or read, and a run over readable files ends well
\* with one record for each command of the lines that do parse.
C17_NumericDrop ==
    /\ Aborted => stderr[Len(stderr)].kind \in {"usage", "open", "read"}
    /\ (pc = "exit" /\ Len(files) > 0 /\ AllReadable)
          => /\ exitCode = 0
             /\ {emitted[k].Command : k \in DOMAIN emitted} = ParseableCommands

\* C18: a second run on the same files writes the same bytes as the first,
\* and records with the same executed_at are emitted in the order in which
\* their commands were met: never a command before another all of whose
\* records were read before any of its own.
C18_DeterministicEmission ==
    /\ (run = 2 /\ Succeeded) => stdout = stdout1
    /\ \A i, j \in DOMAIN emitted :
          (i < j /\ emitted[i].Time = emitted[j].Time)
          => ~(\A m \in ParsedOf(emitted[j].Command) :
                 \A n \in ParsedOf(emitted[i].Command) : m < n)

\* The number of accepted lines among the first n logical lines in hand.
AcceptedInHand(n) ==
    Cardinality({i \in 1..n : i <= Len(lines) /\ validLineRegex(lines[i])})

\* C19: empty logical lines are never errors, in the lenient engine and in
\* the strict variant alike: a run over readable files whose non-empty
\* lines are all records ends well with no diagnostic but the progress
\* notes, and only the accepted lines have been merged: an empty line, the
\* one after the last newline included, adds nothing to the table.
C19_EmptyLines ==
    /\ (pc = "exit" /\ Len(files) > 0 /\ AllReadable
          /\ \A p \in DOMAIN fs : Offending(p) = <<>>)
          => /\ exitCode = 0
             /\ \A i \in DOMAIN stderr : stderr[i].kind = "parsing"
             /\ Len(parsed) = AcceptedUpTo(Len(files))
    /\ pc = "lines" =>
          /\ \A i \in DOMAIN stderr : stderr[i].kind = "parsing"
          /\ Len(parsed) = AcceptedUpTo(fileIdx - 1) + AcceptedInHand(lineIdx - 1)

\* C20: in every state each entry of the merge table is, in all three
\* fields, one record parsed from the input, and its command is its key.
C20_NoPartialUpdate ==
    \A k \in DOMAIN commands :
        /\ commands[k].Command = k
        /\ \E i \in DOMAIN parsed : parsed[i] = commands[k]

\* An entry has been replaced by a later record of another duration, and an
\* earlier record of the command has been discarded since.
C20_Witness ==
    \E k \in DOMAIN commands :
        \E i, j \in ParsedOf(k) :
            /\ i < j
            /\ parsed[i] = commands[k]
            /\ parsed[j].Duration # commands[k].Duration
            /\ \E m \in ParsedOf(k) :
                  m < i /\ parsed[m].Duration # commands[k].Duration

\* C21: on a successful run the emitted records are as many as the distinct
\* command texts of the accepted lines of all files, each of these commands
\* is emitted exactly once, and every emitted command is one of them.
C21_OnePerCommand ==
    Succeeded =>
        LET cmds == UNION {Bodies(p) : p \in DOMAIN fs}
        IN  /\ Len(emitted) = Cardinality(cmds)
            /\ \A c \in cmds : Cardinality(EmittedOf(c)) = 1
            /\ \A k \in DOMAIN emitted : emitted[k].Command \in cmds

\* A run over two files ended well with three accepted lines and two
\* commands.
C21_Witness ==
    /\ Succeeded
    /\ Len(files) = 2
    /\ Len(parsed) = 3
    /\ Len(emitted) = 2
    /\ \A p \in DOMAIN fs : Bodies(p) # {}

\* The record grammar: the field marker, one space, n >= 10 digits, a colon,
\* m >= 1 digits, a semicolon, at the start of the line.
Grammar(l) ==
    \E n \in 10..Len(l) :
        \E m \in 1..Len(l) :
            /\ 4 + n + m <= Len(l)
            /\ l[1] = ":"
            /\ l[2] = " "
            /\ \A i \in 3..(2 + n) : IsDigit(l[i])
            /\ l[3 + n] = ":"
            /\ \A i \in (4 + n)..(3 + n + m) : IsDigit(l[i])
            /\ l[4 + n + m] = ";"

\* The lines of the pool that the grammar rejects, by their commands: nine
\* digits, no space, two spaces, a tab, an empty duration, leading text, no
\* semicolon.
Rejected == {<<"c">>, <<"d">>, <<"e">>, <<"f">>, <<"g">>, <<"h">>, <<"i">>}

\* C22: a logical line is accepted, that is parsed and merged, if and only
\* if it follows the record grammar; the lines with a timestamp of fewer
\* than ten digits, with no or several spaces after the marker, with an
\* empty duration or with text before the marker are never merged, and
\* none of them ends the run.
C22_ValidatorGrammar ==
    /\ pc = "lines" =>
          \A i \in 1..(lineIdx - 1) :
              i <= Len(lines) =>
                  (Grammar(lines[i])
                     <=> \E k \in DOMAIN parsed :
                            /\ parsed[k].Command = Body(lines[i])
                            /\ IsSuffix(<<";">> \o parsed[k].Command, lines[i]))
    /\ DOMAIN commands \cap Rejected = {}
    /\ Aborted => stderr[Len(stderr)].kind \in {"open", "read"}

\* Three lines have been taken: a record, a line with nine digits and a
\* line with an empty duration; the record alone was merged.
C22_Witness ==
    /\ pc = "lines"
    /\ lineIdx = 4
    /\ Len(parsed) = 1
    /\ \E i, j \in 1..3 :
          /\ Body(lines[i]) = <<"c">>
          /\ Body(lines[j]) = <<"g">>

\* C23: the fatal diagnostic of a run that was given files names the file
\* in hand, and when it is about a record it holds the text of the record
\* as the file holds it, a record of several lines with its
\* backslash-newline sequences.
C23_FatalDiagnostics ==
    (Aborted /\ Len(files) > 0) =>
        LET d == stderr[Len(stderr)]
        IN  /\ d.file = files[fileIdx]
            /\ d.kind \notin {"open", "read"}
                  => /\ d.text # <<>>
                     /\ IsInfix(d.text, fs[d.file].data)

\* C24: a run that was given no file writes the usage message to the
\* diagnostic stream and ends with status 1; it takes up no file, merges
\* nothing and writes nothing to the output.
C24_UsageExit ==
    (Len(files) = 0 /\ pc # "main") =>
        /\ pc = "exit"
        /\ exitCode = 1
        /\ stderr = <<Diag("usage", <<>>, <<>>)>>
        /\ fileIdx = 0
        /\ commands = EmptyMap
        /\ parsed = <<>>
        /\ stdout = <<>>
        /\ emitted = <<>>

\* The run without arguments has ended.
C24_Witness ==
    /\ Len(files) = 0
    /\ pc = "exit"
    /\ stderr # <<>>

\* The accepted records of command k that carry its greatest executed_at,
\* whatever the order of the files and of the lines.
Newest(k) ==
    LET es == {e \in WellFormed : e.Command = k}
    IN  {e \in es : \A x \in es : NumLeq(x.Time, e.Time)}

\* C25: the final merge table depends on the accepted records and not on
\* their order, but for one thing: its keys are the commands of the
\* accepted records, whatever their order in the files, and the entry of a
\* key is one of the records of that command with the greatest executed_at;
\* two orders can so differ only in the duration of a key whose greatest
\* executed_at is carried by records of different durations.
C25_OrderIndependence ==
    Succeeded =>
        /\ DOMAIN commands = {e.Command : e \in WellFormed}
        /\ \A k \in DOMAIN commands : commands[k] \in Newest(k)

\* A run over two files ended well with a command whose greatest
\* executed_at is carried by two records of different durations, the
\* second in processing order being the one with the lesser duration.
C25_Witness ==
    /\ Succeeded
    /\ Len(files) = 2
    /\ \E k \in DOMAIN commands :
          /\ Cardinality(Newest(k)) = 2
          /\ \E e \in Newest(k) : NumLess(e.Duration, commands[k].Duration)

\* The merge table is left as it is by every step that takes a line of the
\* second copy of the file.
TableKept == (run = 2 /\ fileIdx = 2 /\ pc = "lines") => commands' = commands

\* C26: when a file is given twice, as the same path or as two files of the
\* same content, processing the second copy leaves the merge table as it
\* was after the first, and the output is the output of the run that was
\* given the file once.
C26_InputIdempotence ==
    /\ [][TableKept]_vars
    /\ []((run = 2 /\ Succeeded) => stdout = stdout1)

\* C27: every record on the output has a backslash-newline only where the
\* normaliser took a continuation away: the record is the parse of a chain
\* of physical lines of an input file, and its command as written holds as
\* many backslash-newline sequences as the chain has joins, also when the
\* text of the input holds the characters of the token.
C27_RestoreOnlyJoins ==
    Succeeded =>
        \A k \in DOMAIN emitted :
            LET written == restoreCommand(emitted[k].Command, multilineCommand)
            IN  /\ IsInfix(<<";">> \o written \o <<NL>>, stdout)
                /\ \E p \in Range(files) :
                     LET ph == Pieces(p)
                     IN  \E i \in DOMAIN ph :
                            /\ i = 1 \/ ~Continues(ph, i - 1)
                            /\ LET j == ChainEnd(ph, i)
                                   r == parseHistoryLine(
                                            Joined(ph, i, j, multilineCommand))
                               IN  /\ r.err = "none"
                                   /\ r.entry = emitted[k]
                                   /\ CountOf(<<BS, NL>>, written) = j - i

\* The last physical line of file p is a record that ends in a backslash.
OpenTail(p) ==
    LET ph == Physical(p)
    IN  /\ Len(ph) > 0
        /\ validLineRegex(ph[Len(ph)])
        /\ HasSuffix(ph[Len(ph)], BS)

\* C28: the loader ends every physical line with a newline, so the
\* normaliser has a piece after each of them.  When the last physical line
\* of a file is a record that ends in a backslash, the empty piece after it
\* is no record start, the last logical line is that record with the token
\* for its backslash, the command of the record ends with the token, and the
\* record is on the output with a backslash-newline at the end of its
\* command and the newline that ends the record after it.
C28_TrailingBackslash ==
    /\ pc = "lines" =>
          LET p      == files[fileIdx]
              ph     == Physical(p)
              pieces == Split(readFileContent(fs[p].data), NL)
              last   == SubSeq(ph[Len(ph)], 1, Len(ph[Len(ph)]) - 1)
                            \o multilineCommand
          IN  /\ Len(pieces) = Len(ph) + 1
              /\ OpenTail(p) =>
                    /\ pieces[Len(pieces)] = <<>>
                    /\ ~timestampRegex(pieces[Len(pieces)])
                    /\ lines[Len(lines)] = last
                    /\ IsSuffix(multilineCommand, parseHistoryLine(last).entry.Command)
                    /\ lineIdx > Len(lines) =>
                          parseHistoryLine(last).entry \in Range(parsed)
    /\ Succeeded =>
          \A p \in Range(files) :
              OpenTail(p) =>
                  LET ph == Physical(p)
                  IN  IsInfix(<<";">> \o TrimSuffix(Body(ph[Len(ph)]), BS)
                                 \o <<BS, NL, NL>>, stdout)

\* A run ended well on a file whose last line is a record that ends in a
\* backslash with no newline after it, and the record is on the output with
\* the backslash, a newline and the newline of the record.
C28_Witness ==
    /\ Succeeded
    /\ OpenTail(PathA)
    /\ fs[PathA].data[Len(fs[PathA].data)] = BS
    /\ Len(emitted) > 0
    /\ IsSuffix(<<BS, NL, NL>>, stdout)

\* What a step may do to the merge table: it removes no key and lowers no
\* stored executed_at; a step that takes a logical line leaves the table as
\* it is when the line is empty, fails the validator, or parses to a record
\* not newer than the entry stored for its command, and otherwise touches
\* the entry of the record's command alone.
TableFrame ==
    /\ \A k \in DOMAIN commands :
          /\ k \in DOMAIN commands'
          /\ NumLeq(commands[k].Time, commands'[k].Time)
    /\ (pc = "lines" /\ lineIdx <= Len(lines)) =>
          LET line == lines[lineIdx]
              r    == parseHistoryLine(line)
              c    == r.entry.Command
          IN  IF line = <<>> \/ ~validLineRegex(line)
              THEN commands' = commands
              ELSE r.err = "none" =>
                     /\ (c \in DOMAIN commands
                            /\ NumLeq(r.entry.Time, commands[c].Time))
                          => commands' = commands
                     /\ DOMAIN commands' \subseteq DOMAIN commands \cup {c}
                     /\ \A k \in DOMAIN commands \ {c} : commands'[k] = commands[k]

\* C29: processing a logical line leaves the whole merge table unchanged
\* when the line is empty, fails the validator, or parses to a record whose
\* executed_at is less than or equal to the one stored for its command; an
\* insertion or replacement leaves every entry under another key unchanged;
\* no step of a run removes a key or lowers a stored executed_at.
C29_DeduplicatorFrame == [][TableFrame]_vars

\* The table holds two commands, the record taken last was older than the
\* entry stored for its command, and the empty line after it has been
\* passed over.
C29_Witness ==
    /\ pc = "lines"
    /\ Cardinality(DOMAIN commands) = 2
    /\ Len(parsed) > 0
    /\ LET e == parsed[Len(parsed)]
       IN  /\ e # commands[e.Command]
           /\ NumLess(e.Time, commands[e.Command].Time)
    /\ lineIdx > Len(lines)
    /\ lines[Len(lines)] = <<>>

\* One of the two final states: every file processed and every record of the
\* merge table written exactly once, or an abort with nothing written.
FinalState ==
    \/ /\ exitCode = 0
       /\ fileIdx = Len(files) + 1
       /\ Len(stderr) = Len(files)
       /\ \A i \in DOMAIN files : stderr[i] = Diag("parsing", files[i], <<>>)
       /\ Len(emitted) = Cardinality(DOMAIN commands)
       /\ \A c \in DOMAIN commands :
             \E k \in DOMAIN emitted :
                 /\ emitted[k] = commands[c]
                 /\ \A m \in DOMAIN emitted : emitted[m].Command = c => m = k
       /\ stdout = Flatten([k \in DOMAIN emitted |->
                               formatEntry(emitted[k], multilineCommand)])
    \/ /\ exitCode = 1
       /\ stdout = <<>>
       /\ emitted = <<>>

\* No step goes back: the files are taken one after the other, each file is
\* opened only when the loop of main comes to it, and the logical lines of a
\* file are taken one after the other from the first.
NoRetry ==
    /\ fileIdx' \in {fileIdx, fileIdx + 1}
    /\ pc' = "process" => (pc = "loop" /\ fileIdx' = fileIdx)
    /\ (pc = "lines" /\ pc' = "loop") => fileIdx' = fileIdx + 1
    /\ pc' = "lines" =>
          \/ pc = "process" /\ lineIdx' = 1
          \/ pc = "lines" /\ lineIdx' = lineIdx + 1 /\ lines' = lines
    /\ emitIdx' \in {emitIdx, emitIdx + 1} \/ (pc = "loop" /\ emitIdx' = 1)
    /\ pc = "exit" => pc' = "exit"

\* C30: every run on a finite list of finite files comes to an end, in one
\* of two final states: all files processed and every record of the merge
\* table written exactly once, or an abort with nothing written; nothing is
\* tried again, and no file and no line is processed more than once for one
\* occurrence in the argument list.
C30_Termination ==
    /\ <>(pc = "exit")
    /\ [](pc = "exit" => FinalState)
    /\ [][NoRetry]_vars

\* A run over two files has come to its end with every file processed and
\* the records of the table on the output.
C30_Witness ==
    /\ pc = "exit"
    /\ exitCode = 0
    /\ Len(files) = 2
    /\ fileIdx = 3
    /\ Len(parsed) >= 2
    /\ Len(emitted) >= 1

====
